---- MODULE Spec2Model ----
(***************************************************************************)
(* A model of include_url_macro's fetch-validate-cache pipeline            *)
(* (src/lib.rs): fetch_url_content, cached_url_content, the read of the    *)
(* returned path by the expansion (include_str!, include_bytes!), and the  *)
(* validation and the emitted block of include_json_url.                   *)
(*                                                                         *)
(* Text is a sequence of one-character strings ("NUL" is the byte 0 of     *)
(* b"\0"); file content is a sequence of byte values (integers).           *)
(***************************************************************************)
EXTENDS Integers, Sequences, FiniteSets, TLC

\* ------------------------------------------------------------------ bounds

\* Number of cached_url_content invocations (macro call sites expanded).
NumCalls == 2

\* Longest body given to the codec alone.
MaxBody == 3

\* ------------------------------------------------------------- text helpers

NUL == "NUL"

UpperAlpha == {"F", "H", "P", "S", "T"}

LowerAlpha == {"a", "b", "f", "h", "n", "o", "p", "s", "t", "u", "w", "x"}

Digits == {"0", "1"}

\* char::to_ascii_lowercase, on the letters the model's inputs use.
Lower(c) ==
    CASE c = "F" -> "f"
      [] c = "H" -> "h"
      [] c = "P" -> "p"
      [] c = "S" -> "s"
      [] c = "T" -> "t"
      [] OTHER -> c

LowerAll(s) == [i \in 1..Len(s) |-> Lower(s[i])]

\* The least index i in lo..Len(s) with s[i] in cs, or Len(s) + 1.
RECURSIVE FirstIn(_, _, _)
FirstIn(s, cs, lo) ==
    IF lo > Len(s) THEN Len(s) + 1
    ELSE IF s[lo] \in cs THEN lo
    ELSE FirstIn(s, cs, lo + 1)

\* The least index i in lo..Len(s) with s[i] not in cs, or Len(s) + 1.
RECURSIVE FirstNotIn(_, _, _)
FirstNotIn(s, cs, lo) ==
    IF lo > Len(s) THEN Len(s) + 1
    ELSE IF s[lo] \notin cs THEN lo
    ELSE FirstNotIn(s, cs, lo + 1)

\* ------------------------------------------------------------ URL Validator

http == <<"h", "t", "t", "p">>

https == <<"h", "t", "t", "p", "s">>

ftp == <<"f", "t", "p">>

\* The schemes the URL parser treats as special (they need a host); the
\* file scheme, which allows an empty host, is not among the model's inputs.
SpecialSchemes == {http, https, ftp, <<"w", "s">>, <<"w", "s", "s">>}

SchemeChars == UpperAlpha \cup LowerAlpha \cup Digits \cup {"+", "-", "."}

\* Url::parse(url_str), without a base URL: the scheme is an ASCII letter
\* followed by letters, digits, + - . up to the first ':' and is lowercased;
\* without one the input is relative and there is no base. A special scheme
\* skips the slashes after the ':' and needs a non-empty host.
UrlParse(url_str) ==
    LET colon == FirstNotIn(url_str, SchemeChars, 1)
        hasScheme == /\ colon <= Len(url_str)
                     /\ url_str[colon] = ":"
                     /\ colon > 1
                     /\ url_str[1] \in UpperAlpha \cup LowerAlpha
        scheme == LowerAll(SubSeq(url_str, 1, colon - 1))
        hostLo == FirstNotIn(url_str, {"/", "\\"}, colon + 1)
        hostHi == FirstIn(url_str, {"/", "\\", "?", "#"}, hostLo)
    IN  IF ~hasScheme
        THEN [ok |-> FALSE, err |-> "relative URL without a base"]
        ELSE IF scheme \in SpecialSchemes
        THEN IF hostHi = hostLo
             THEN [ok |-> FALSE, err |-> "empty host"]
             ELSE [ok |-> TRUE, scheme |-> scheme,
                   host |-> SubSeq(url_str, hostLo, hostHi - 1),
                   rest |-> SubSeq(url_str, hostHi, Len(url_str))]
        ELSE [ok |-> TRUE, scheme |-> scheme, host |-> <<>>,
              rest |-> SubSeq(url_str, colon + 1, Len(url_str))]

\* The error messages of fetch_url_content and cached_url_content (the text
\* before the cause): InvalidUrl, UnsupportedScheme, NetworkError (two) and
\* IoError (three) of the error taxonomy.
ErrInvalidUrl == "Invalid URL"

ErrScheme == "Only HTTP and HTTPS URLs are supported"

ErrFetch == "Failed to fetch URL"

ErrBody == "Failed to read response body"

ErrCreateDir == "Failed to create cache directory"

ErrOpen == "Failed to open cache file"

ErrWrite == "Failed to write cache file"

\* A scheme test that lets every scheme through.
SchemeAllowedAny(url) == TRUE

\* The scheme test of fetch_url_content on a parsed URL.
SchemeAllowed(url) == ~(url.scheme # http /\ url.scheme # https)

\* A validation that reports an unparsable URL as a scheme it does not support.
ValidateUrlSchemeOnly(url_str) ==
    LET url == UrlParse(url_str)
    IN  IF ~url.ok \/ ~SchemeAllowed(url) THEN ErrScheme ELSE "ok"

\* fetch_url_content up to the request: "ok" when the request is sent, or
\* the error it returns before any network I/O.
ValidateUrl(url_str) ==
    LET url == UrlParse(url_str)
    IN  IF ~url.ok THEN ErrInvalidUrl
        ELSE IF ~SchemeAllowed(url) THEN ErrScheme
        ELSE "ok"

\* --------------------------------------------------------- Cache Key Deriver

\* tracked_env::var("CARGO_PKG_NAME"): not set, or its value.
NoEnv == [set |-> FALSE, value |-> <<>>]

Env(value) == [set |-> TRUE, value |-> value]

unknown == <<"u", "n", "k", "n", "o", "w", "n">>

\* tracked_env::var("CARGO_PKG_NAME").unwrap_or_else(|_| "unknown".into())
CrateName(env) == IF env.set THEN env.value ELSE unknown

CompressKind == {"None", "Brotli"}

\* format!("{:?}", compress_kind): the derived Debug text of the variant.
DebugFmt(compress_kind) ==
    IF compress_kind = "None"
    THEN <<"N", "o", "n", "e">>
    ELSE <<"B", "r", "o", "t", "l", "i">>

\* A hasher that is not fed the encoding.
HashInputNoKind(crate_name, url_str, compress_kind) ==
    crate_name \o <<NUL>> \o url_str \o <<NUL>>

\* A hasher that is not fed the crate name.
HashInputNoCrate(crate_name, url_str, compress_kind) ==
    <<NUL>> \o url_str \o <<NUL>> \o DebugFmt(compress_kind)

\* A hasher that is not fed the separator after the crate name.
HashInputNoSeparator(crate_name, url_str, compress_kind) ==
    crate_name \o url_str \o <<NUL>> \o DebugFmt(compress_kind)

\* The bytes fed to the hasher, in the order of the update calls.
HashInput(crate_name, url_str, compress_kind) ==
    crate_name \o <<NUL>> \o url_str \o <<NUL>> \o DebugFmt(compress_kind)

\* Sha256 then format!("{:x}", hash). The digest is not computed: it is taken
\* to be collision free, so the file name is a tag around the hashed bytes.
Sha256Hex(input) == <<"sha256", input>>

\* The file name of the cache entry.
CacheKey(crate_name, url_str, compress_kind) ==
    Sha256Hex(HashInput(crate_name, url_str, compress_kind))

\* out_dir.join(filename)
CacheFile(filename) == <<"INCLUDE_URL_CACHE_DIR", filename>>

\* --------------------------------------------------------- Compression Codec

\* The lgwin argument of CompressorWriter::new(&mut buffer, 4096, 11, 22).
LgWin == 22

\* The Brotli stream is modelled in its stored form: a header byte carrying
\* the window size, then meta-blocks, each a length byte (at least 1) and that
\* many literal bytes, then the empty last meta-block, the byte 0.

\* CompressorWriter::new: nothing written, nothing pending.
BrotliNew == [out |-> <<>>, pending |-> <<>>, header |-> FALSE]

\* encoder.write_all(&content): the input is taken into the encoder.
BrotliWriteAll(enc, data) == [enc EXCEPT !.pending = @ \o data]

\* The header, written before the first meta-block.
BrotliHeader(enc) == IF enc.header THEN <<>> ELSE <<LgWin>>

\* The pending input as one meta-block.
BrotliBlock(enc) ==
    IF enc.pending = <<>> THEN <<>> ELSE <<Len(enc.pending)>> \o enc.pending

\* encoder.flush(): everything taken so far reaches the buffer.
BrotliFlush(enc) ==
    [out |-> enc.out \o BrotliHeader(enc) \o BrotliBlock(enc),
     pending |-> <<>>, header |-> TRUE]

\* A drop that leaves the stream as the last flush left it.
BrotliFinishNoLast(enc) == enc

\* Drop of the CompressorWriter at the end of its block: the stream is
\* finished with the empty last meta-block.
BrotliFinish(enc) ==
    [out |-> enc.out \o BrotliHeader(enc) \o BrotliBlock(enc) \o <<0>>,
     pending |-> <<>>, header |-> TRUE]

\* The match on compress_kind: the bytes that are persisted.
Encode(content, compress_kind) ==
    IF compress_kind = "None"
    THEN content
    ELSE BrotliFinish(BrotliFlush(BrotliWriteAll(BrotliNew, content))).out

\* Nothing decoded.
NoDecoded == [ok |-> FALSE, data |-> <<>>]

\* The meta-blocks of a stream from index i on, after the bytes acc: a length
\* byte 0 ends the stream, and a stream that ends before it is an error.
RECURSIVE BrotliBlocks(_, _, _)
BrotliBlocks(stream, i, acc) ==
    IF i > Len(stream) THEN NoDecoded
    ELSE IF stream[i] = 0 THEN [ok |-> TRUE, data |-> acc]
    ELSE IF i + stream[i] > Len(stream) THEN NoDecoded
    ELSE BrotliBlocks(stream, i + stream[i] + 1,
                      acc \o SubSeq(stream, i + 1, i + stream[i]))

\* brotli::Decompressor::new(&content[..], 4096) read to its end: the header
\* byte is a window size, the meta-blocks follow.
BrotliDecode(stream) ==
    IF Len(stream) >= 1 /\ stream[1] \in 10..24
    THEN BrotliBlocks(stream, 2, <<>>)
    ELSE NoDecoded

\* -------------------------------------------- include_json_url: the content

ErrJson == "Invalid JSON content from URL"

ExpectTyped == "Failed to parse JSON into the specified type"

ExpectValue == "Failed to parse JSON"

\* The character of an ASCII byte, for the bytes the bodies hold.
Chr(b) ==
    CASE b = 0 -> NUL
      [] b = 1 -> "SOH"
      [] b = 2 -> "STX"
      [] b = 32 -> " "
      [] b = 34 -> "\""
      [] b = 48 -> "0"
      [] b = 49 -> "1"
      [] b = 120 -> "x"

\* String::from_utf8 inside read_to_string: ASCII bytes are text, and a byte
\* 255 occurs in no UTF-8 text (the bodies hold no other byte above 127).
FromUtf8(bytes) ==
    IF \A i \in 1..Len(bytes) : bytes[i] < 128
    THEN [ok |-> TRUE, text |-> [i \in 1..Len(bytes) |-> Chr(bytes[i])]]
    ELSE [ok |-> FALSE, text |-> <<>>]

\* std::fs::read_to_string(path): the file must exist and hold UTF-8.
ReadToString(file) ==
    IF file.exists THEN FromUtf8(file.data) ELSE [ok |-> FALSE, text |-> <<>>]

JsonWs == {" "}

ControlChars == {NUL, "SOH", "STX"}

NoValue == [type |-> "none", text |-> <<>>]

\* serde_json::from_str::<serde_json::Value>(text), on the characters above:
\* whitespace, then a number (digits, no leading zero) or a string (no
\* control character up to the closing quote), then whitespace to the end.
JsonParse(text) ==
    LET i == FirstNotIn(text, JsonWs, 1)
        isNum == i <= Len(text) /\ text[i] \in Digits
        isStr == i <= Len(text) /\ text[i] = "\""
        numEnd == FirstNotIn(text, Digits, i)
        close == FirstIn(text, {"\""}, i + 1)
        okNum == isNum /\ (text[i] # "0" \/ numEnd = i + 1)
        okStr == /\ isStr
                 /\ close <= Len(text)
                 /\ \A k \in (i + 1)..(close - 1) : text[k] \notin ControlChars
        rest == FirstNotIn(text, JsonWs, IF isNum THEN numEnd ELSE close + 1)
    IN  IF (okNum \/ okStr) /\ rest > Len(text)
        THEN [ok |-> TRUE,
              value |-> IF isNum
                        THEN [type |-> "Number", text |-> SubSeq(text, i, numEnd - 1)]
                        ELSE [type |-> "String", text |-> SubSeq(text, i + 1, close - 1)]]
        ELSE [ok |-> FALSE, value |-> NoValue]

\* Option<Type> of JsonUrlInput: no type, or the type after the comma.
NoTy == "none"

Types == {"i64", "String"}

\* Deserialize for the type: a JSON number is an i64 (the numbers of the
\* bodies are small), a JSON string a String, any value a serde_json::Value.
Deserializes(ty, value) ==
    CASE ty = NoTy -> TRUE
      [] ty = "i64" -> value.type = "Number"
      [] ty = "String" -> value.type = "String"

\* serde_json::from_str::<ty>(text).
FromStr(ty, text) ==
    LET r == JsonParse(text)
    IN  IF r.ok /\ Deserializes(ty, r.value) THEN r
        ELSE [ok |-> FALSE, value |-> NoValue]

\* serde_json::to_string of a value.
to_string(value) ==
    IF value.type = "String" THEN <<"\"">> \o value.text \o <<"\"">>
    ELSE value.text

\* What the macro returns: nothing yet, a compile error, or the block
\* { let json_str = ..; serde_json::from_str::<ty>(&json_str).expect(..) }.
NoOutput == [state |-> "none", err |-> "", json_str |-> <<>>, ty |-> NoTy]

CompileError(msg) == [state |-> "error", err |-> msg, json_str |-> <<>>, ty |-> NoTy]

Tokens(json_str, ty) == [state |-> "tokens", err |-> "", json_str |-> json_str, ty |-> ty]

\* What evaluating the block at run time gives: nothing yet, the value, or
\* the panic of expect.
NoRun == [state |-> "none", value |-> NoValue, msg |-> ""]

\* The block is evaluated: the typed parse of json_str, unwrapped by expect.
Evaluate(tokens) ==
    LET r == FromStr(tokens.ty, tokens.json_str)
    IN  IF r.ok THEN [state |-> "value", value |-> r.value, msg |-> ""]
        ELSE [state |-> "panic", value |-> NoValue,
              msg |-> IF tokens.ty = NoTy THEN ExpectValue ELSE ExpectTyped]

\* A literal made of the parsed value, serialized again.
JsonStrOfValue(content, value) == to_string(value)

\* let json_str = #content: the literal is the text that was read.
JsonStr(content, value) == content

\* The match on read_to_string and on the generic parse: the tokens returned
\* for the cache file.
Expand(file, ty) ==
    LET content == ReadToString(file)
        parsed == JsonParse(content.text)
    IN  IF ~content.ok THEN CompileError(ErrOpen)
        ELSE IF parsed.ok THEN Tokens(JsonStr(content.text, parsed.value), ty)
        ELSE CompileError(ErrJson)

\* ---------------------------------------------------------------- inputs

U_http == <<"h", "t", "t", "p", ":", "/", "/", "h">>

U_ftp == <<"f", "t", "p", ":", "/", "/", "h">>

U_not_a_url == <<"n", "o", "t", "-", "a", "-", "u">>

\* The macro invocations of the crates that are built, each the value of
\* CARGO_PKG_NAME, the URL literal and the encoding of the macro:
\* include_url! and include_url_bytes_with_brotli! in a crate a.
CallSites ==
    {<<Env(<<"a">>), U_http, "None">>,
     <<Env(<<"a">>), U_http, "Brotli">>,
     <<Env(<<"a">>), U_ftp, "None">>,
     <<Env(<<"a">>), U_not_a_url, "None">>}

\* The URL literals of the call sites.
Urls == {s[2] : s \in CallSites}

\* The URLs a request is sent for.
Fetchable == {u \in Urls : ValidateUrl(u) = "ok"}

\* What fetch_url_content returns for the other URLs, before any request.
Rejection == [u \in Urls \ Fetchable |-> ValidateUrl(u)]

\* What the origin serves over time: a status and a body, first the one and
\* later the other. 0 is not a body byte, so that a hole in a file shows.
Versions ==
    <<[status |-> 200, body |-> <<1>>],
      [status |-> 404, body |-> <<2>>]>>

Calls == 1..NumCalls

\* The file names the call sites can derive.
Keys == {CacheKey(CrateName(s[1]), s[2], s[3]) : s \in CallSites}

\* A file of the cache root: absent, or its content.
NoFile == [exists |-> FALSE, data |-> <<>>]

File(data) == [exists |-> TRUE, data |-> data]

\* No response yet.
NoResponse == [status |-> 0, body |-> <<>>]

\* No Result yet.
NoResult == [state |-> "none", path |-> <<>>, err |-> ""]

\* ------------------------------------------------------------------ state

VARIABLES
    dirExists,  \* the cache root INCLUDE_URL_CACHE_DIR exists
    fs,         \* the files of the cache root: name -> content, or NoFile
    origin,     \* the response the origin serves for each fetchable URL
    call        \* each invocation of cached_url_content, see IdleCall

vars == <<dirExists, fs, origin, call>>

\* An invocation that has not started.
IdleCall ==
    [pc |-> "idle",          \* idle, mkdir, lookup, fetch, open, write, ret, done
     env |-> NoEnv,          \* CARGO_PKG_NAME of the expanding crate
     url |-> <<>>,           \* url_str
     kind |-> "None",        \* compress_kind
     key |-> <<>>,           \* filename
     lookup |-> "none",      \* what cache_file.exists() found: hit or miss
     fetched |-> "none",     \* how fetch_url_content ended: ok or its error
     net |-> 0,              \* requests sent
     resp |-> NoResponse,    \* the response whose body was read (a local)
     content |-> <<>>,       \* the bytes to persist
     off |-> 0,              \* bytes of content written through file
     opened |-> FALSE,       \* the call opened (created or truncated) the file
     created |-> FALSE,      \* the file did not exist when the call opened it
     res |-> NoResult,       \* the Result returned
     snap |-> NoFile,        \* the key's file when the call returned
     read |-> NoFile,        \* what the expansion read at the returned path
     ty |-> NoTy,            \* the type of include_json_url!(url, ty)
     out |-> NoOutput,       \* what include_json_url returned
     run |-> NoRun,          \* what the returned block evaluated to
     decoded |-> NoDecoded]  \* what a Brotli decoder made of the content

Ok(path) == [state |-> "ok", path |-> path, err |-> ""]

Err(msg) == [state |-> "err", path |-> <<>>, err |-> msg]

Init ==
    /\ dirExists \in BOOLEAN
    /\ fs = [k \in Keys |-> NoFile]
    /\ origin = [u \in Fetchable |-> Versions[1]]
    /\ call = [c \in Calls |-> IdleCall]

\* ------------------------------------------------------------ file system

Max(a, b) == IF a >= b THEN a ELSE b

\* A write that appends to the file, whatever the offset of the handle.
WriteAppend(file, off, data) == file \o data

\* write(2) of data at offset off of a file: bytes past the end of the file
\* extend it, and a gap before off reads as zeros.
WriteAt(file, off, data) ==
    [i \in 1..Max(Len(file), off + Len(data)) |->
        IF i > off /\ i <= off + Len(data) THEN data[i - off]
        ELSE IF i <= Len(file) THEN file[i]
        ELSE 0]

\* OpenOptions::new().write(true).create(true).truncate(true).open(..): the
\* file exists afterwards and is empty, whatever it held.
OpenTruncate(files, k) == [files EXCEPT ![k] = File(<<>>)]

\* ---------------------------------------------------- cached_url_content

\* The call returns r: the key's file as it is at that moment is recorded,
\* and the locals are gone.
Return(c, r, files) ==
    [call[c] EXCEPT !.res = r,
                    !.snap = files[call[c].key],
                    !.resp = NoResponse,
                    !.content = <<>>,
                    !.off = 0,
                    !.pc = IF r.state = "ok" THEN "ret" ELSE "done"]

\* A lookup without the early return.
AfterLookupAlwaysFetch(exists) == "fetch"

\* if cache_file.exists() { return Ok(cache_file); }: where the call goes on.
AfterLookup(exists) == IF exists THEN "ret" ELSE "fetch"

\* A fetch whose error is dropped instead of returned.
AfterFetchAlwaysOpen(outcome) == "open"

\* let content = fetch_url_content(url_str)?; where the call goes on.
AfterFetch(outcome) == IF outcome = "ok" THEN "open" ELSE "done"

\* The macro is expanded at a call site: out_dir.exists() is tested, the crate
\* name read and the file name derived. Call sites are taken in order.
Begin(c) ==
    /\ call[c].pc = "idle"
    /\ \A d \in Calls : d < c => call[d].pc # "idle"
    /\ \E site \in CallSites :
         LET k == CacheKey(CrateName(site[1]), site[2], site[3])
         IN  call' = [call EXCEPT ![c] =
                        [@ EXCEPT !.env = site[1], !.url = site[2],
                                  !.kind = site[3],
                                  !.key = k,
                                  !.pc = IF dirExists THEN "lookup" ELSE "mkdir"]]
    /\ UNCHANGED <<dirExists, fs, origin>>

\* std::fs::create_dir_all(out_dir) succeeds (also when another call made the
\* directory meanwhile).
CreateDirOk(c) ==
    /\ call[c].pc = "mkdir"
    /\ dirExists' = TRUE
    /\ call' = [call EXCEPT ![c].pc = "lookup"]
    /\ UNCHANGED <<fs, origin>>

\* std::fs::create_dir_all(out_dir) fails.
CreateDirFail(c) ==
    /\ call[c].pc = "mkdir"
    /\ ~dirExists
    /\ call' = [call EXCEPT ![c] = Return(c, Err(ErrCreateDir), fs)]
    /\ UNCHANGED <<dirExists, fs, origin>>

\* cache_file.exists(): a hit returns the path at once.
Lookup(c) ==
    /\ call[c].pc = "lookup"
    /\ LET exists == fs[call[c].key].exists
           next == AfterLookup(exists)
       IN  call' = [call EXCEPT ![c] =
                      IF next = "ret"
                      THEN [Return(c, Ok(CacheFile(call[c].key)), fs)
                              EXCEPT !.lookup = IF exists THEN "hit" ELSE "miss"]
                      ELSE [@ EXCEPT !.lookup = IF exists THEN "hit" ELSE "miss",
                                     !.pc = next]]
    /\ UNCHANGED <<dirExists, fs, origin>>

\* The call leaves fetch_url_content with outcome ("ok" or the error), after
\* sent requests and, when a body was read, with its response; on "ok" the
\* body is encoded.
Fetched(c, outcome, response, sent) ==
    LET next == AfterFetch(outcome)
        body == response.body
        base == [call[c] EXCEPT !.fetched = outcome, !.net = @ + sent,
                                !.resp = response]
    IN  IF next = "done"
        THEN [base EXCEPT !.res = Err(outcome), !.snap = fs[call[c].key],
                          !.pc = "done"]
        ELSE [base EXCEPT !.content = Encode(body, call[c].kind), !.off = 0,
                          !.pc = next]

\* fetch_url_content returns before any request: Url::parse fails, or the
\* scheme is neither http nor https.
FetchRejected(c) ==
    /\ call[c].pc = "fetch"
    /\ call[c].url \notin Fetchable
    /\ call' = [call EXCEPT ![c] = Fetched(c, Rejection[call[c].url], NoResponse, 0)]
    /\ UNCHANGED <<dirExists, fs, origin>>

\* A fetch that turns a 4xx or 5xx status into an error.
StatusOutcomeErrorForStatus(response) ==
    IF response.status >= 400 THEN ErrFetch ELSE "ok"

\* The status of a response is never looked at.
StatusOutcome(response) == "ok"

\* client.get(url).send() and response.bytes() succeed: the body is what the
\* origin serves now, whatever the status.
FetchOk(c) ==
    /\ call[c].pc = "fetch"
    /\ call[c].url \in Fetchable
    /\ LET response == origin[call[c].url]
       IN  call' = [call EXCEPT ![c] =
                      Fetched(c, StatusOutcome(response), response, 1)]
    /\ UNCHANGED <<dirExists, fs, origin>>

\* send() fails (transport), or bytes() fails (the body cannot be read).
FetchFail(c) ==
    /\ call[c].pc = "fetch"
    /\ call[c].url \in Fetchable
    /\ \E e \in {ErrFetch, ErrBody} :
         call' = [call EXCEPT ![c] = Fetched(c, e, NoResponse, 1)]
    /\ UNCHANGED <<dirExists, fs, origin>>

\* write_all has written everything: Ok(cache_file).
Written(c, files) == Return(c, Ok(CacheFile(call[c].key)), files)

\* The cache file is opened: created, or truncated when it exists. write_all
\* of nothing returns without a write.
OpenOk(c) ==
    /\ call[c].pc = "open"
    /\ dirExists
    /\ fs' = OpenTruncate(fs, call[c].key)
    /\ call' = [call EXCEPT ![c] =
                  [(IF call[c].content = <<>>
                    THEN Written(c, fs')
                    ELSE [call[c] EXCEPT !.pc = "write"])
                   EXCEPT !.opened = TRUE,
                          !.created = ~fs[call[c].key].exists]]
    /\ UNCHANGED <<dirExists, origin>>

\* The open fails: the files are as they were.
OpenFail(c) ==
    /\ call[c].pc = "open"
    /\ call' = [call EXCEPT ![c] = Return(c, Err(ErrOpen), fs)]
    /\ UNCHANGED <<dirExists, fs, origin>>

\* One write of write_all's loop: n bytes reach the file at the handle's
\* offset; after the last one the call returns.
WriteOk(c) ==
    /\ call[c].pc = "write"
    /\ \E n \in 1..(Len(call[c].content) - call[c].off) :
         LET k == call[c].key
             data == SubSeq(call[c].content, call[c].off + 1, call[c].off + n)
         IN  /\ fs' = [fs EXCEPT ![k] = File(WriteAt(fs[k].data, call[c].off, data))]
             /\ call' = [call EXCEPT ![c] =
                           IF call[c].off + n = Len(call[c].content)
                           THEN Written(c, fs')
                           ELSE [@ EXCEPT !.off = call[c].off + n]]
    /\ UNCHANGED <<dirExists, origin>>

\* A write of write_all's loop fails: what was written stays.
WriteFail(c) ==
    /\ call[c].pc = "write"
    /\ call' = [call EXCEPT ![c] = Return(c, Err(ErrWrite), fs)]
    /\ UNCHANGED <<dirExists, fs, origin>>

\* The expansion (include_str!, include_bytes!, read_to_string) reads the
\* file at the returned path.
ReadPath(c) ==
    /\ call[c].pc = "ret"
    /\ call' = [call EXCEPT ![c] = [@ EXCEPT !.read = fs[call[c].key], !.pc = "done"]]
    /\ UNCHANGED <<dirExists, fs, origin>>

\* The origin starts serving its next version for a URL.
OriginChange ==
    /\ \E u \in Fetchable, i \in 1..(Len(Versions) - 1) :
         /\ origin[u] = Versions[i]
         /\ origin' = [origin EXCEPT ![u] = Versions[i + 1]]
    /\ UNCHANGED <<dirExists, fs, call>>

Step(c) ==
    \/ Begin(c)
    \/ CreateDirOk(c)
    \/ CreateDirFail(c)
    \/ Lookup(c)
    \/ FetchRejected(c)
    \/ FetchOk(c)
    \/ FetchFail(c)
    \/ OpenOk(c)
    \/ OpenFail(c)
    \/ WriteOk(c)
    \/ WriteFail(c)
    \/ ReadPath(c)

\* Call sites are expanded concurrently.
Next == (\E c \in Calls : Step(c)) \/ OriginChange

Spec == Init /\ [][Next]_vars

\* No other call is between its start and its end.
Alone(c) == \A d \in Calls : d # c => call[d].pc \in {"idle", "done"}

\* Call sites are expanded one after the other.
NextSeq == (\E c \in Calls : Alone(c) /\ Step(c)) \/ OriginChange

SeqSpec == Init /\ [][NextSeq]_vars

\* ------------------------------------------------- key derivation alone

\* The values of CARGO_PKG_NAME of the crates compared (an environment
\* variable holds no NUL).
KeyEnvs == {NoEnv, Env(<<"a">>), Env(<<"a", "b">>), Env(unknown)}

\* The URL literals compared; a literal may hold any character.
KeyUrls ==
    {U_http,
     <<>>,
     <<"b">>,
     <<"b", NUL, "c">>,
     <<"b", NUL, "N", "o", "n", "e">>}

\* Requests that have not derived their file names yet.
InitKey ==
    /\ dirExists = TRUE
    /\ fs = [k \in Keys |-> NoFile]
    /\ origin = [u \in Fetchable |-> Versions[1]]
    /\ call \in [Calls -> {[IdleCall EXCEPT !.env = e, !.url = u, !.kind = k] :
                              e \in KeyEnvs, u \in KeyUrls, k \in CompressKind}]

\* Lines 98 to 108 of cached_url_content for one request.
DeriveKey(c) ==
    /\ call[c].pc = "idle"
    /\ call' = [call EXCEPT ![c] =
                  [@ EXCEPT !.key = CacheKey(CrateName(call[c].env),
                                             call[c].url, call[c].kind),
                            !.pc = "keyed"]]
    /\ UNCHANGED <<dirExists, fs, origin>>

NextKey == \E c \in Calls : DeriveKey(c)

KeySpec == InitKey /\ [][NextKey]_vars

\* ------------------------------------------------------- include_json_url

\* What the origin can serve to include_json_url: the number 1 after a
\* space, the string "x", the letter x, a byte that is no text.
JsonResponses ==
    {[status |-> 200, body |-> <<32, 49>>],
     [status |-> 200, body |-> <<34, 120, 34>>],
     [status |-> 200, body |-> <<120>>],
     [status |-> 200, body |-> <<255>>]}

\* include_json_url!(url) and include_json_url!(url, ty) in a crate a.
JsonSites == {<<Env(<<"a">>), U_http, ty>> : ty \in {NoTy} \cup Types}

\* The cache root exists and is empty, the origin serves one of the bodies.
InitJson ==
    /\ dirExists = TRUE
    /\ fs = [k \in Keys |-> NoFile]
    /\ origin \in [Fetchable -> JsonResponses]
    /\ call = [c \in Calls |-> IdleCall]

\* include_json_url is expanded at a call site: cached_url_content is called
\* with CompressKind::None.
BeginJson(c) ==
    /\ call[c].pc = "idle"
    /\ \A d \in Calls : d < c => call[d].pc # "idle"
    /\ \E site \in JsonSites :
         call' = [call EXCEPT ![c] =
                    [@ EXCEPT !.env = site[1], !.url = site[2],
                              !.kind = "None",
                              !.ty = site[3],
                              !.key = CacheKey(CrateName(site[1]), site[2], "None"),
                              !.pc = IF dirExists THEN "lookup" ELSE "mkdir"]]
    /\ UNCHANGED <<dirExists, fs, origin>>

\* An expansion that removes the cache file when it returns a compile error.
KeepEntryOnlyIfValid(files, k, output) ==
    IF output.state = "error" THEN [files EXCEPT ![k] = NoFile] ELSE files

\* The files after the expansion: no arm of the matches touches the file.
KeepEntry(files, k, output) == files

\* Ok(path): the file is read and validated, and the macro returns the block
\* or a compile error.
ExpandJson(c) ==
    /\ call[c].pc = "ret"
    /\ LET output == Expand(fs[call[c].key], call[c].ty)
       IN  /\ call' = [call EXCEPT ![c] =
                         [@ EXCEPT !.read = fs[call[c].key],
                                   !.out = output,
                                   !.pc = "done"]]
           /\ fs' = KeepEntry(fs, call[c].key, output)
    /\ UNCHANGED <<dirExists, origin>>

\* Err(err): the macro returns the error as a compile error.
ExpandJsonErr(c) ==
    /\ call[c].pc = "done"
    /\ call[c].res.state = "err"
    /\ call[c].out.state = "none"
    /\ call' = [call EXCEPT ![c].out = CompileError(call[c].res.err)]
    /\ UNCHANGED <<dirExists, fs, origin>>

\* The crate was built and the block is evaluated.
RunJson(c) ==
    /\ call[c].pc = "done"
    /\ call[c].out.state = "tokens"
    /\ call[c].run.state = "none"
    /\ call' = [call EXCEPT ![c].run = Evaluate(call[c].out)]
    /\ UNCHANGED <<dirExists, fs, origin>>

StepJson(c) ==
    \/ BeginJson(c)
    \/ Lookup(c)
    \/ FetchOk(c)
    \/ FetchFail(c)
    \/ OpenOk(c)
    \/ OpenFail(c)
    \/ WriteOk(c)
    \/ WriteFail(c)
    \/ ExpandJson(c)
    \/ ExpandJsonErr(c)
    \/ RunJson(c)

\* The call sites of include_json_url are expanded one after the other.
NextJson == \E c \in Calls : Alone(c) /\ StepJson(c)

JsonSpec == InitJson /\ [][NextJson]_vars

\* ----------------------------------------------------------- codec alone

\* The byte values of the bodies: the end marker and the header byte of the
\* stream among them, and a byte that no text holds.
BodyBytes == {0, 1, LgWin, 255}

\* Every body of up to MaxBody bytes.
Bodies == UNION {[1..n -> BodyBytes] : n \in 0..MaxBody}

\* The first call has read a body for the encoding Brotli.
InitCodec ==
    /\ dirExists = TRUE
    /\ fs = [k \in Keys |-> NoFile]
    /\ origin = [u \in Fetchable |-> Versions[1]]
    /\ \E b \in Bodies :
         call = [c \in Calls |->
                   IF c = 1
                   THEN [IdleCall EXCEPT !.kind = "Brotli",
                                         !.resp = [status |-> 200, body |-> b],
                                         !.pc = "encode"]
                   ELSE IdleCall]

\* The match on compress_kind for the body.
EncodeBody(c) ==
    /\ call[c].pc = "encode"
    /\ call' = [call EXCEPT ![c] =
                  [@ EXCEPT !.content = Encode(call[c].resp.body, call[c].kind),
                            !.pc = "encoded"]]
    /\ UNCHANGED <<dirExists, fs, origin>>

\* The user of include_url_bytes_with_brotli! decodes the bytes.
DecodeBody(c) ==
    /\ call[c].pc = "encoded"
    /\ call' = [call EXCEPT ![c] =
                  [@ EXCEPT !.decoded = BrotliDecode(call[c].content),
                            !.pc = "decoded"]]
    /\ UNCHANGED <<dirExists, fs, origin>>

NextCodec == \E c \in Calls : EncodeBody(c) \/ DecodeBody(c)

CodecSpec == InitCodec /\ [][NextCodec]_vars

\* ------------------------------------------------------------ properties

\* The call has returned.
Ended(c) == call[c].res.state # "none"

\* Two calls with the same (namespace, url, encoding).
SameRequest(p, q) ==
    /\ CrateName(call[p].env) = CrateName(call[q].env)
    /\ call[p].url = call[q].url
    /\ call[p].kind = call[q].kind

\* What fetch_url_content can return as an error.
FetcherErrors == {ErrInvalidUrl, ErrScheme, ErrFetch, ErrBody}

\* The complete entries a call's key can hold: the encoding of a body the
\* origin serves.
CompleteContents(c) ==
    {Encode(Versions[i].body, call[c].kind) : i \in 1..Len(Versions)}

\* C1 (SeqSpec): of two sequential calls with the same (namespace, url,
\* encoding) of which the first succeeds, the second returns the same path,
\* finds the cache file with the same bytes as the first left, and sends no
\* request.
C1_SequentialIdempotent ==
    \A p, q \in Calls :
        (p < q /\ SameRequest(p, q) /\ call[p].res.state = "ok" /\ Ended(q))
        => /\ call[q].res = call[p].res
           /\ call[q].snap = call[p].snap
           /\ call[q].net = 0

\* A first call fetched and created a non-empty entry, a second call for the
\* same request has returned and its path has been read.
C1_Witness ==
    \E p, q \in Calls :
        /\ p < q /\ SameRequest(p, q)
        /\ call[p].res.state = "ok" /\ call[p].net = 1
        /\ call[p].snap.data # <<>>
        /\ call[q].pc = "done" /\ call[q].lookup = "hit"

\* C2 (Spec), as claimed: with no call failing, a call that hits finds the
\* complete content at its path when it returns, and so does the expansion
\* that reads the path.
C2_HitSeesCompleteFile ==
    (\A d \in Calls : call[d].res.state # "err")
    => \A c \in Calls :
          (call[c].lookup = "hit" /\ Ended(c))
          => /\ call[c].snap.exists
             /\ call[c].snap.data \in CompleteContents(c)
             /\ call[c].pc = "done"
                => /\ call[c].read.exists
                   /\ call[c].read.data \in CompleteContents(c)

\* C3 (SeqSpec), as claimed: when a call has returned an error, the cache
\* root holds no file for its key, unless the file was there before the call.
C3_NoPartialEntryOnFailure ==
    \A c \in Calls :
        (call[c].pc = "done" /\ call[c].res.state = "err")
        => (~call[c].snap.exists \/ call[c].lookup = "hit")

\* The URLs that parse and whose scheme is neither http nor https.
OtherSchemeUrls ==
    {u \in Urls : UrlParse(u).ok /\ UrlParse(u).scheme \notin {http, https}}

\* The call is for such a URL.
OtherScheme(c) == call[c].pc # "idle" /\ call[c].url \in OtherSchemeUrls

\* C4 (Spec), as claimed: a call whose URL has another scheme than http and
\* https fails with UnsupportedScheme and sends no request.
C4_OtherSchemeUnsupported ==
    \A c \in Calls :
        OtherScheme(c)
        => /\ call[c].net = 0
           /\ Ended(c) => /\ call[c].res.state = "err"
                          /\ call[c].res.err = ErrScheme

\* C4 (Spec), amended: such a call sends no request, never opens the cache
\* file, and fails: with UnsupportedScheme, or with the IoError of creating
\* the missing cache root, which comes first.
C4_OtherSchemeNoRequest ==
    \A c \in Calls :
        OtherScheme(c)
        => /\ call[c].net = 0
           /\ ~call[c].opened
           /\ call[c].fetched \in {"none", ErrScheme}
           /\ Ended(c) => /\ call[c].res.state = "err"
                          /\ \/ call[c].res.err = ErrScheme
                             \/ /\ call[c].res.err = ErrCreateDir
                                /\ call[c].lookup = "none"
           /\ (Ended(c) /\ call[c].lookup # "none")
              => call[c].res.err = ErrScheme

\* A call for an ftp URL has failed with UnsupportedScheme.
C4_Witness ==
    \E c \in Calls :
        /\ call[c].url = U_ftp
        /\ call[c].pc = "done"
        /\ call[c].res = Err(ErrScheme)
        /\ call[c].net = 0

\* The strings that do not parse as a URL.
InvalidUrls == {u \in Urls : ~UrlParse(u).ok}

\* The call is for such a string.
InvalidUrl(c) == call[c].pc # "idle" /\ call[c].url \in InvalidUrls

\* C5 (Spec), as claimed: a call whose URL does not parse fails with
\* InvalidUrl and with no other error, whatever the state of the cache root.
C5_InvalidUrlAlways ==
    \A c \in Calls :
        (InvalidUrl(c) /\ Ended(c))
        => /\ call[c].res.state = "err"
           /\ call[c].res.err = ErrInvalidUrl

\* C5 (Spec), amended: such a call fails with InvalidUrl whenever the cache
\* root exists or is created; when creating the missing cache root fails it
\* fails with that IoError, before the URL is looked at. It sends no request.
C5_InvalidUrlUnlessNoRoot ==
    \A c \in Calls :
        InvalidUrl(c)
        => /\ call[c].net = 0
           /\ ~call[c].opened
           /\ Ended(c) => /\ call[c].res.state = "err"
                          /\ \/ call[c].res.err = ErrInvalidUrl
                             \/ /\ call[c].res.err = ErrCreateDir
                                /\ call[c].lookup = "none"
           /\ (Ended(c) /\ call[c].lookup # "none")
              => call[c].res.err = ErrInvalidUrl

\* A call for a string that is no URL has failed with InvalidUrl while the
\* cache root holds an entry of another call.
C5_Witness ==
    \E c, d \in Calls :
        /\ call[c].url = U_not_a_url
        /\ call[c].pc = "done"
        /\ call[c].res = Err(ErrInvalidUrl)
        /\ call[d].res.state = "ok"
        /\ fs[call[d].key].exists

\* C6 (Spec), as claimed: once a key's file exists, no step changes it, apart
\* from the writes of the call that created it, which make the entry.
C6_EntryReadOnly ==
    [][\A k \in Keys :
          (fs[k].exists /\ fs'[k] # fs[k])
          => \E c \in Calls : /\ call[c].key = k
                              /\ call[c].created
                              /\ call[c].pc = "write"
                              /\ call'[c] # call[c]]_vars

\* C7 (Spec): a call sends at most one request, and one only after a lookup
\* that missed; a call that hit has returned the key's path without a request
\* and without opening the file or having content to write.
C7_OneRequestOnlyOnMiss ==
    \A c \in Calls :
        /\ call[c].net <= 1
        /\ call[c].net = 1 => call[c].lookup = "miss"
        /\ call[c].lookup = "hit"
           => /\ call[c].net = 0
              /\ call[c].res = Ok(CacheFile(call[c].key))
              /\ ~call[c].opened
              /\ call[c].fetched = "none"
              /\ call[c].content = <<>>

\* One call missed and sent its request, another call hit and has returned.
C7_Witness ==
    \E c, d \in Calls :
        /\ call[c].lookup = "miss" /\ call[c].net = 1
        /\ call[d].lookup = "hit" /\ call[d].pc = "done"

\* C8 (Spec): the step in which fetch_url_content fails ends the call with
\* that error and leaves the cache root as it is; the call has opened no file.
C8_FetchFailureWritesNothing ==
    [][\A c \in Calls :
          (call[c].pc = "fetch" /\ call'[c].fetched \in FetcherErrors)
          => /\ call'[c].pc = "done"
             /\ call'[c].res = Err(call'[c].fetched)
             /\ ~call'[c].opened
             /\ fs' = fs
             /\ dirExists' = dirExists]_vars

\* A request failed in transport after a miss, and the key has no file.
C8_Witness ==
    \E c \in Calls :
        /\ call[c].pc = "done"
        /\ call[c].lookup = "miss"
        /\ call[c].res = Err(ErrFetch)
        /\ call[c].net = 1
        /\ ~fs[call[c].key].exists

\* The request has derived its file name.
Keyed(c) == call[c].pc = "keyed"

\* C9 (KeySpec): two requests with the same namespace and URL and different
\* encodings derive different file names, hence different cache files.
C9_EncodingSeparatesKeys ==
    \A p, q \in Calls :
        (/\ Keyed(p) /\ Keyed(q)
         /\ CrateName(call[p].env) = CrateName(call[q].env)
         /\ call[p].url = call[q].url
         /\ call[p].kind # call[q].kind)
        => /\ call[p].key # call[q].key
           /\ CacheFile(call[p].key) # CacheFile(call[q].key)

\* Both encodings of one URL in one crate have derived their file names.
C9_Witness ==
    \E p, q \in Calls :
        /\ Keyed(p) /\ Keyed(q)
        /\ call[p].env = call[q].env
        /\ call[p].url = call[q].url
        /\ call[p].kind = "None" /\ call[q].kind = "Brotli"

\* The namespace of a request: CARGO_PKG_NAME, or "unknown" without it.
Namespace(c) == IF call[c].env.set THEN call[c].env.value ELSE unknown

\* C10 (KeySpec): two requests with the same URL and encoding derive the
\* same file name exactly when their namespaces are the same, the namespace
\* being CARGO_PKG_NAME, or "unknown" when it is not set.
C10_NamespaceSeparatesKeys ==
    \A p, q \in Calls :
        (/\ Keyed(p) /\ Keyed(q)
         /\ call[p].url = call[q].url
         /\ call[p].kind = call[q].kind)
        => (call[p].key = call[q].key <=> Namespace(p) = Namespace(q))

\* One URL and encoding requested from a crate a and from a build without
\* CARGO_PKG_NAME.
C10_Witness ==
    \E p, q \in Calls :
        /\ Keyed(p) /\ Keyed(q)
        /\ call[p].url = call[q].url
        /\ call[p].kind = call[q].kind
        /\ call[p].env = Env(<<"a">>)
        /\ call[q].env = NoEnv
        /\ call[p].key # call[q].key

\* What the Brotli encoder makes of a body: written whole, flushed, finished.
CodecOutput(body) ==
    BrotliFinish(BrotliFlush(BrotliWriteAll(BrotliNew, body))).out

\* C11 (Spec), as claimed: the step in which a call that fetched returns Ok
\* leaves the key's file with exactly the body of the response when the
\* encoding is None and exactly the encoder's output for that body when it is
\* Brotli, nothing added; the path returned is the path of that file.
C11_CreatedHoldsEncodedBody ==
    [][\A c \in Calls :
          (call[c].pc \in {"open", "write"} /\ call'[c].res.state = "ok")
          => /\ fs'[call[c].key] =
                  File(IF call[c].kind = "None"
                       THEN call[c].resp.body
                       ELSE CodecOutput(call[c].resp.body))
             /\ call'[c].snap = fs'[call[c].key]
             /\ call'[c].res.path = CacheFile(call[c].key)]_vars

\* include_json_url has returned at the call site.
Expanded(c) == call[c].out.state # "none"

\* The text of the cache file the expansion read, when it is text.
CachedText(c) == ReadToString(call[c].read)

\* C12 (JsonSpec), as claimed: when the cache file holds well-formed JSON that
\* does not parse into the type of the call site, the macro returns a compile
\* error.
C12_TypeMismatchFailsExpansion ==
    \A c \in Calls :
        (/\ Expanded(c)
         /\ call[c].ty # NoTy
         /\ CachedText(c).ok
         /\ JsonParse(CachedText(c).text).ok
         /\ ~FromStr(call[c].ty, CachedText(c).text).ok)
        => call[c].out.state = "error"

\* The generic parse of what the expansion read fails: the file is no text,
\* or its text is no JSON.
GenericParseFails(c) ==
    ~CachedText(c).ok \/ ~JsonParse(CachedText(c).text).ok

\* C13 (JsonSpec), as claimed: when the generic parse of the cached bytes
\* fails, also for bytes that are no text, the macro returns the compile error
\* of the validation and no block; when it succeeds, the block holds exactly
\* the cached text.
C13_ParseFailureIsValidationError ==
    \A c \in Calls :
        (Expanded(c) /\ call[c].res.state = "ok")
        => IF GenericParseFails(c)
           THEN /\ call[c].out = CompileError(ErrJson)
                /\ call[c].run = NoRun
           ELSE call[c].out = Tokens(CachedText(c).text, call[c].ty)

\* C13 (JsonSpec), amended: when the generic parse of the cached bytes fails
\* the macro returns a compile error and no block: the validation error when
\* the bytes are text, and the error of reading the cache file when they are
\* no text. When it succeeds, the block holds exactly the cached text and the
\* type of the call site.
C13_ParseFailureIsCompileError ==
    \A c \in Calls :
        (Expanded(c) /\ call[c].res.state = "ok")
        => IF GenericParseFails(c)
           THEN /\ call[c].out =
                     CompileError(IF CachedText(c).ok THEN ErrJson ELSE ErrOpen)
                /\ call[c].run = NoRun
           ELSE call[c].out = Tokens(CachedText(c).text, call[c].ty)

\* A call site fetched a body that is no text, read it back from the cache
\* file and got the error of reading the file, and no block; a later call site
\* hit the entry and ended the same way.
C13_Witness ==
    \E c, d \in Calls :
        /\ c < d
        /\ call[c].net = 1
        /\ call[d].lookup = "hit"
        /\ \A e \in {c, d} :
              /\ call[e].res.state = "ok"
              /\ call[e].read = File(<<255>>)
              /\ call[e].out = CompileError(ErrOpen)
              /\ call[e].run = NoRun

\* C14 (CodecSpec): for every body, the empty one and those that are no text
\* included, decoding the bytes that are persisted for the encoding Brotli
\* succeeds and gives exactly the body.
C14_BrotliRoundTrip ==
    \A c \in Calls :
        call[c].pc = "decoded"
        => call[c].decoded = [ok |-> TRUE, data |-> call[c].resp.body]

\* A body that is no text and holds the byte of the end marker was encoded
\* to a longer stream and decoded.
C14_Witness ==
    \E c \in Calls :
        /\ call[c].pc = "decoded"
        /\ call[c].resp.body = <<0, 255>>
        /\ Len(call[c].content) > 2
        /\ call[c].decoded.ok

\* C15 (Spec): when concurrent calls with the same (namespace, url, encoding)
\* have all ended, no call has failed and the origin has served the same
\* response throughout, every call has returned the same path, the path of
\* the key's file, and that file holds exactly the encoded body of the origin.
C15_ConcurrentSameKeyConverges ==
    (/\ \A c \in Calls : call[c].pc = "done" /\ call[c].res.state = "ok"
     /\ \A c, d \in Calls : SameRequest(c, d)
     /\ origin[call[1].url] = Versions[1])
    => /\ \A c \in Calls : call[c].res = Ok(CacheFile(call[1].key))
       /\ fs[call[1].key] = File(Encode(Versions[1].body, call[1].kind))

\* Two calls for the Brotli encoding of one URL both missed, both fetched and
\* wrote, and both have ended with Ok.
C15_Witness ==
    /\ \A c \in Calls : /\ call[c].pc = "done" /\ call[c].res.state = "ok"
                        /\ call[c].kind = "Brotli"
    /\ \A c, d \in Calls : SameRequest(c, d)
    /\ origin[call[1].url] = Versions[1]
    /\ \E c, d \in Calls : /\ c # d
                           /\ call[c].net = 1 /\ call[c].opened
                           /\ call[d].net = 1 /\ call[d].opened

\* C16 (SeqSpec): once a call has returned Ok for a key, the key's file stays
\* as that call left it whatever the origin serves later, and every later call
\* with the same (namespace, url, encoding) hits it, sends no request, returns
\* the same path and reads those bytes; a call sends a request only when no
\* earlier call with its (namespace, url, encoding) returned Ok.
C16_EntryPermanentlyValid ==
    \A p \in Calls :
        call[p].res.state = "ok"
        => /\ fs[call[p].key] = call[p].snap
           /\ \A q \in Calls :
                (p < q /\ SameRequest(p, q) /\ call[q].pc # "idle")
                => /\ call[q].net = 0
                   /\ call[q].lookup \in {"none", "hit"}
                   /\ Ended(q) => /\ call[q].res = call[p].res
                                  /\ call[q].snap = call[p].snap
                   /\ call[q].pc = "done" => call[q].read = call[p].snap
           /\ call[p].net = 1
              => \A o \in Calls :
                    (o < p /\ SameRequest(o, p)) => call[o].res.state = "err"

\* A call stored the first body, the origin changed to its second body, and a
\* later call for the same request hit the entry and read the first body.
C16_Witness ==
    \E p, q \in Calls :
        /\ p < q /\ SameRequest(p, q)
        /\ call[p].net = 1 /\ call[p].res.state = "ok"
        /\ call[p].snap = File(Encode(Versions[1].body, call[p].kind))
        /\ origin[call[p].url] = Versions[2]
        /\ call[q].pc = "done" /\ call[q].lookup = "hit" /\ call[q].net = 0
        /\ call[q].read = call[p].snap

\* C17 (KeySpec): two requests that differ in namespace, URL or encoding feed
\* different bytes to the hash, hence derive different file names, also when
\* a URL holds NUL or ends with the text of an encoding name (a namespace
\* holds no NUL).
C17_HashInputInjective ==
    \A p, q \in Calls :
        (/\ Keyed(p) /\ Keyed(q)
         /\ NUL \notin {Namespace(p)[i] : i \in 1..Len(Namespace(p))}
         /\ NUL \notin {Namespace(q)[i] : i \in 1..Len(Namespace(q))}
         /\ <<Namespace(p), call[p].url, call[p].kind>>
              # <<Namespace(q), call[q].url, call[q].kind>>)
        => /\ HashInput(Namespace(p), call[p].url, call[p].kind)
                # HashInput(Namespace(q), call[q].url, call[q].kind)
           /\ call[p].key # call[q].key

\* A URL that holds NUL and ends with None, requested without compression,
\* next to the URL before that NUL in the same crate.
C17_Witness ==
    \E p, q \in Calls :
        /\ Keyed(p) /\ Keyed(q)
        /\ call[p].env = call[q].env
        /\ call[p].url = <<"b", NUL, "N", "o", "n", "e">>
        /\ call[q].url = <<"b">>
        /\ call[p].kind = "None" /\ call[q].kind = "None"
        /\ call[p].key # call[q].key

\* C18 (SeqSpec): a response whose body was read is the content to persist
\* whatever its status, 4xx and 5xx included; a request ends in an error only
\* as a transport failure or an unreadable body; and a call that fetched and
\* returned Ok left the body of one of the origin's responses, whatever its
\* status, as the entry that later calls for the key hit.
C18_StatusIgnored ==
    \A c \in Calls :
        /\ call[c].resp # NoResponse
           => /\ call[c].fetched = "ok"
              /\ call[c].pc \in {"open", "write"}
              /\ call[c].content = Encode(call[c].resp.body, call[c].kind)
        /\ (call[c].net = 1 /\ call[c].fetched \notin {"none", "ok"})
           => call[c].fetched \in {ErrFetch, ErrBody}
        /\ (call[c].net = 1 /\ call[c].res.state = "ok")
           => /\ call[c].snap.exists
              /\ call[c].snap.data \in CompleteContents(c)
              /\ \A d \in Calls :
                    (c < d /\ SameRequest(c, d) /\ Ended(d))
                    => /\ call[d].lookup = "hit"
                       /\ call[d].snap = call[c].snap

\* The origin answered 404, the call stored the body of that response and
\* returned Ok, and a later call hit the entry and read that body.
C18_Witness ==
    \E c, d \in Calls :
        /\ c < d /\ SameRequest(c, d)
        /\ Versions[2].status = 404
        /\ call[c].net = 1 /\ call[c].res.state = "ok"
        /\ call[c].snap = File(Encode(Versions[2].body, call[c].kind))
        /\ call[d].pc = "done" /\ call[d].lookup = "hit"
        /\ call[d].read = call[c].snap

\* C19 (JsonSpec): when a call of include_json_url fetched a body, stored it
\* and failed the validation, the entry was there before the validation and
\* stays as stored, and every later call for the same URL in the same
\* namespace hits it, sends no request, reads the same bytes and fails with
\* the same validation error.
C19_ValidationFailureKeepsEntry ==
    \A p \in Calls :
        (/\ call[p].net = 1
         /\ call[p].res.state = "ok"
         /\ call[p].out = CompileError(ErrJson))
        => /\ call[p].snap.exists
           /\ call[p].read = call[p].snap
           /\ fs[call[p].key] = call[p].snap
           /\ \A q \in Calls :
                (p < q /\ SameRequest(p, q) /\ call[q].pc # "idle")
                => /\ call[q].net = 0
                   /\ call[q].lookup \in {"none", "hit"}
                   /\ Expanded(q) => /\ call[q].read = call[p].snap
                                     /\ call[q].out = call[p].out

\* A call fetched the body x, which is no JSON, stored it and failed the
\* validation; a later call with a type hit the entry without a request and
\* failed with the same error.
C19_Witness ==
    \E p, q \in Calls :
        /\ p < q /\ SameRequest(p, q)
        /\ call[p].net = 1 /\ call[p].res.state = "ok"
        /\ call[p].out = CompileError(ErrJson)
        /\ fs[call[p].key] = File(<<120>>)
        /\ call[q].ty # NoTy
        /\ call[q].lookup = "hit" /\ call[q].net = 0
        /\ call[q].out = CompileError(ErrJson)

====
